---- MODULE Spec2Model ----
(***************************************************************************)
(* Model of admin_streamlit/app.py: the MCP admin client.  The state is    *)
(* the Streamlit session (history, tools), the widgets read by the ad-hoc  *)
(* call section, the wall clock that supplies request ids, and a record of *)
(* what was handed to requests.post.  One action per button handler.       *)
(***************************************************************************)
EXTENDS Integers, Sequences, FiniteSets, TLC

(***************************************************************************)
(* Bounds of the model.                                                    *)
(***************************************************************************)
\* number of script runs (button clicks) explored from the initial state
MaxRuns == 2
\* wall-clock reading at the start of the explored runs
T0 == 100
\* calls already recorded before the explored runs, in the long-session start
HistPrefill == 19

(***************************************************************************)
(* Python / JSON values.  Every value is a record [k, v]: k is the Python  *)
(* type, v the payload.  A dict is a sequence of [key, val] items in       *)
(* insertion order; a str read off the wire is kept as its lexemes (text). *)
(***************************************************************************)
None == [k |-> "null", v |-> <<>>]
Bool(b) == [k |-> "bool", v |-> b]
Num(n) == [k |-> "num", v |-> n]
Str(s) == [k |-> "str", v |-> s]
Text(t) == [k |-> "text", v |-> t]
Arr(items) == [k |-> "arr", v |-> items]
Obj(items) == [k |-> "obj", v |-> items]
KV(key, val) == [key |-> key, val |-> val]

\* isinstance(x, dict)
IsDict(x) == x.k = "obj"

\* key in d
Has(d, key) == \E i \in 1..Len(d.v) : d.v[i].key = key

\* d.get(key, default)
GetOr(d, key, default) ==
    IF Has(d, key)
    THEN d.v[CHOOSE i \in 1..Len(d.v) : d.v[i].key = key].val
    ELSE default

\* d.get(key)
Get(d, key) == GetOr(d, key, None)

\* bool(x): Python truthiness
Truthy(x) ==
    CASE x.k = "null" -> FALSE
      [] x.k = "bool" -> x.v
      [] x.k = "num" -> x.v # 0
      [] x.k = "str" -> x.v # ""
      [] x.k \in {"text", "arr", "obj"} -> Len(x.v) > 0

(***************************************************************************)
(* JSON text.  A text is a sequence of lexemes; " " is whitespace.         *)
(***************************************************************************)
RECURSIVE json_dumps(_)
RECURSIVE DumpItems(_, _, _)

\* the lexemes of the items i.. of a list (isObj = FALSE) or dict (isObj = TRUE)
DumpItems(items, i, isObj) ==
    IF i > Len(items) THEN <<>>
    ELSE (IF i > 1 THEN <<",">> ELSE <<>>)
         \o (IF isObj
             THEN <<"\"", items[i].key, "\"", ":">> \o json_dumps(items[i].val)
             ELSE json_dumps(items[i]))
         \o DumpItems(items, i + 1, isObj)

\* json.dumps(x)
json_dumps(x) ==
    CASE x.k = "null" -> <<"null">>
      [] x.k = "bool" -> IF x.v THEN <<"true">> ELSE <<"false">>
      [] x.k = "num" -> <<ToString(x.v)>>
      [] x.k = "str" -> <<"\"", x.v, "\"">>
      [] x.k = "arr" -> <<"[">> \o DumpItems(x.v, 1, FALSE) \o <<"]">>
      [] x.k = "obj" -> <<"{">> \o DumpItems(x.v, 1, TRUE) \o <<"}">>

IsSpace(lexeme) == lexeme = " "

RECURSIVE strip(_)
\* str.strip(): leading and trailing whitespace removed
strip(text) ==
    IF text = <<>> THEN text
    ELSE IF IsSpace(Head(text)) THEN strip(Tail(text))
    ELSE IF IsSpace(text[Len(text)]) THEN strip(SubSeq(text, 1, Len(text) - 1))
    ELSE text

\* json.dumps(x, indent=2): whitespace after "," and ":" and inside non-empty
\* brackets
RECURSIVE Indent(_, _)
Indent(text, i) ==
    IF i > Len(text) THEN <<>>
    ELSE LET lex == text[i]
             opens == lex \in {"{", "["} /\ i < Len(text) /\ text[i + 1] \notin {"}", "]"}
             closes == i < Len(text) /\ text[i + 1] \in {"}", "]"} /\ lex \notin {"{", "["}
         IN  <<lex>>
             \o (IF lex \in {",", ":"} \/ opens \/ closes THEN <<" ">> ELSE <<>>)
             \o Indent(text, i + 1)

json_dumps_indent(x) == Indent(json_dumps(x), 1)

(***************************************************************************)
(* What the server may describe and answer (the inputs of the model).      *)
(***************************************************************************)
Prop(type) == Obj(<<KV("type", type)>>)

EchoTool ==
    Obj(<<KV("name", Str("echo")), KV("description", Str("Echo")),
          KV("inputSchema", Obj(<<KV("type", Str("object")),
              KV("properties", Obj(<<KV("msg", Prop(Str("string")))>>))>>))>>)

SampleTool ==
    Obj(<<KV("name", Str("sample")), KV("description", Str("Sample")),
          KV("inputSchema", Obj(<<KV("properties", Obj(<<
              KV("a", Prop(Str("string"))), KV("b", Prop(Str("number"))),
              KV("c", Prop(Str("boolean"))), KV("d", Prop(Str("array"))),
              KV("e", Obj(<<>>)), KV("f", Prop(Str("integer"))),
              KV("g", Prop(Arr(<<Str("string"), Str("null")>>))),
              KV("h", Prop(Str("object")))>>))>>))>>)

BareTool == Obj(<<KV("name", Str("bare"))>>)

ToolsResult(tools) == Obj(<<KV("jsonrpc", Str("2.0")), KV("id", Num(1)),
                            KV("result", Obj(<<KV("tools", Arr(tools))>>))>>)

RpcError == Obj(<<KV("jsonrpc", Str("2.0")),
                  KV("error", Obj(<<KV("message", Str("Method not found"))>>))>>)

\* bodies a server may answer tools/list with
ListBodyValues ==
    { ToolsResult(<<EchoTool, SampleTool, BareTool>>), ToolsResult(<<EchoTool>>),
      ToolsResult(<<>>), Obj(<<KV("result", Obj(<<>>))>>),
      Obj(<<KV("result", Str("ok"))>>), RpcError, Arr(<<Str("ok")>>) }

\* bodies a server may answer tools/call with
CallBodyValues ==
    { Obj(<<KV("jsonrpc", Str("2.0")), KV("result", Obj(<<KV("echoed", Str("hi"))>>))>>),
      Obj(<<KV("result", Bool(FALSE))>>), RpcError, Arr(<<Str("ok")>>) }

\* a body that is no JSON
Garbage == <<"<html>", " ", "Bad", " ", "Gateway">>

HttpStatuses == {200, 201, 300, 404}

(***************************************************************************)
(* Default-argument synthesis (the tools/call editor pre-fill).            *)
(***************************************************************************)
\* x == y on Python values
PyEq(x, y) == x.k = y.k /\ x.v = y.v

\* faulty variant of Placeholder: "integer" is taken for "number"
PlaceholderIntegerAsNumber(v) ==
    LET type == Get(v, "type")
    IN  IF PyEq(type, Str("string")) THEN Str("")
        ELSE IF PyEq(type, Str("number")) \/ PyEq(type, Str("integer")) THEN Num(0)
        ELSE IF PyEq(type, Str("boolean")) THEN Bool(FALSE)
        ELSE IF PyEq(type, Str("array")) THEN Arr(<<>>)
        ELSE None

\* the placeholder chosen for one property schema v
Placeholder(v) ==
    LET type == Get(v, "type")
    IN  IF PyEq(type, Str("string")) THEN Str("")
        ELSE IF PyEq(type, Str("number")) THEN Num(0)
        ELSE IF PyEq(type, Str("boolean")) THEN Bool(FALSE)
        ELSE IF PyEq(type, Str("array")) THEN Arr(<<>>)
        ELSE None

\* tool.get("inputSchema", {}).get("properties", {})
PropsOf(tool) == GetOr(GetOr(tool, "inputSchema", Obj(<<>>)), "properties", Obj(<<>>))

\* default_args after the loop over props.items()
DefaultArgs(tool) ==
    LET props == PropsOf(tool)
    IN  Obj([i \in 1..Len(props.v) |-> KV(props.v[i].key, Placeholder(props.v[i].val))])

(***************************************************************************)
(* Parsing: json.loads as a recursive-descent parser over the lexemes.     *)
(* A parse is [ok, val, next]: next is the index after the value.          *)
(***************************************************************************)
JSONDecodeError == [k |-> "JSONDecodeError", v |-> <<>>]

Parsed(val, next) == [ok |-> TRUE, val |-> val, next |-> next]
NoParse == [ok |-> FALSE, val |-> None, next |-> 0]

Digits == 0..9

RECURSIVE SkipSpace(_, _)
\* the first index >= i that holds no whitespace
SkipSpace(text, i) ==
    IF i <= Len(text) /\ IsSpace(text[i]) THEN SkipSpace(text, i + 1) ELSE i

\* the lexeme at index i, "" past the end
At(text, i) == IF i <= Len(text) THEN text[i] ELSE ""

\* d[key] = val on a dict's items
SetItem(items, key, val) ==
    IF \E n \in 1..Len(items) : items[n].key = key
    THEN [n \in 1..Len(items) |-> IF items[n].key = key THEN KV(key, val) ELSE items[n]]
    ELSE Append(items, KV(key, val))

RECURSIVE ParseValue(_, _)
RECURSIVE ParseElements(_, _, _)
RECURSIVE ParseMembers(_, _, _)

\* the elements of a list from index i on, acc being those parsed so far
ParseElements(text, i, acc) ==
    LET e == ParseValue(text, SkipSpace(text, i))
        j == SkipSpace(text, e.next)
    IN  IF ~e.ok THEN NoParse
        ELSE IF At(text, j) = "," THEN ParseElements(text, j + 1, Append(acc, e.val))
        ELSE IF At(text, j) = "]" THEN Parsed(Arr(Append(acc, e.val)), j + 1)
        ELSE NoParse

\* the members of a dict from index i on, acc being those parsed so far
ParseMembers(text, i, acc) ==
    LET q == SkipSpace(text, i)
        c == SkipSpace(text, q + 3)
        m == ParseValue(text, SkipSpace(text, c + 1))
        j == SkipSpace(text, m.next)
    IN  IF ~(At(text, q) = "\"" /\ At(text, q + 2) = "\"" /\ At(text, c) = ":") THEN NoParse
        ELSE IF ~m.ok THEN NoParse
        ELSE IF At(text, j) = ","
             THEN ParseMembers(text, j + 1, SetItem(acc, text[q + 1], m.val))
        ELSE IF At(text, j) = "}"
             THEN Parsed(Obj(SetItem(acc, text[q + 1], m.val)), j + 1)
        ELSE NoParse

\* the value that starts at index i
ParseValue(text, i) ==
    LET lex == At(text, i)
    IN  IF i > Len(text) THEN NoParse
        ELSE IF lex = "null" THEN Parsed(None, i + 1)
        ELSE IF lex = "true" THEN Parsed(Bool(TRUE), i + 1)
        ELSE IF lex = "false" THEN Parsed(Bool(FALSE), i + 1)
        ELSE IF \E n \in Digits : ToString(n) = lex
             THEN Parsed(Num(CHOOSE n \in Digits : ToString(n) = lex), i + 1)
        ELSE IF lex = "\""
             THEN IF i + 2 <= Len(text) /\ text[i + 2] = "\""
                  THEN Parsed(Str(text[i + 1]), i + 3)
                  ELSE NoParse
        ELSE IF lex = "["
             THEN IF At(text, SkipSpace(text, i + 1)) = "]"
                  THEN Parsed(Arr(<<>>), SkipSpace(text, i + 1) + 1)
                  ELSE ParseElements(text, i + 1, <<>>)
        ELSE IF lex = "{"
             THEN IF At(text, SkipSpace(text, i + 1)) = "}"
                  THEN Parsed(Obj(<<>>), SkipSpace(text, i + 1) + 1)
                  ELSE ParseMembers(text, i + 1, <<>>)
        ELSE NoParse

\* json.loads(text) / Response.json()
json_loads(text) ==
    LET p == ParseValue(text, SkipSpace(text, 1))
    IN  IF p.ok /\ SkipSpace(text, p.next) = Len(text) + 1 THEN p.val ELSE JSONDecodeError

(***************************************************************************)
(* Transport outcomes: requests.post raises, or returns a Response.        *)
(***************************************************************************)
NoResponse == [kind |-> "none", status_code |-> 0, text |-> <<>>]
RequestException == [kind |-> "exception", status_code |-> 0, text |-> <<>>]
Response(status, text) == [kind |-> "response", status_code |-> status, text |-> text]

CallNets ==
    {RequestException}
    \cup { Response(s, t) : s \in HttpStatuses,
                            t \in {json_dumps(b) : b \in CallBodyValues} \cup {Garbage} }

\* what a preset call meets: one outcome of each kind
PresetNets ==
    { RequestException,
      Response(200, json_dumps(Obj(<<KV("result", Str("ok"))>>))),
      Response(300, json_dumps(Obj(<<KV("result", Str("ok"))>>))),
      Response(404, json_dumps(RpcError)) }

ListNets ==
    {RequestException}
    \cup { Response(s, t) : s \in HttpStatuses,
                            t \in {json_dumps(b) : b \in ListBodyValues} \cup {Garbage} }

\* texts the operator may leave in the argument editor, besides the pre-fill
ArgTexts ==
    { <<>>, <<" ">>, <<"{">>, <<"{", "\"", "msg", "\"", ":", " ", "\"", "hi", "\"", "}">>,
      <<"7">> }

\* Response.ok, and the complement of what raise_for_status() raises on
ok(status) == ~(400 <= status /\ status < 600)

(***************************************************************************)
(* State.                                                                  *)
(***************************************************************************)
VARIABLES
    history,       \* st.session_state.history
    tools,         \* st.session_state.tools
    now,           \* the wall clock, datetime.now()
    posted,        \* the "id" of every payload handed to requests.post, in order
    clicked,       \* the button whose handler ran last
    r,             \* what requests.post did in that run
    shown,         \* the indicator that run rendered: success, error or warning
    selected,      \* the tool picked in the selectbox at the last tools/call click
    default_args,  \* the pre-fill synthesized for it
    args_text      \* the editor's text at the last tools/call click

vars == <<history, tools, now, posted, clicked, r, shown, selected, default_args, args_text>>

editor == <<selected, default_args, args_text>>

\* the request envelope of call_mcp_tool
Payload(tool_name, args, t) ==
    Obj(<<KV("jsonrpc", Str("2.0")), KV("id", Num(t)), KV("method", Str("tools/call")),
          KV("params", Obj(<<KV("name", Str(tool_name)), KV("arguments", args)>>))>>)

\* the request envelope of the tools/list handler
ListPayload == Obj(<<KV("jsonrpc", Str("2.0")), KV("id", Num(1)), KV("method", Str("tools/list"))>>)

\* faulty variant of ResponseBody: the fallback drops the raw text
ResponseBodyNoRawText(reply) ==
    LET parsed == json_loads(reply.text)
    IN  IF parsed # JSONDecodeError THEN parsed
        ELSE Obj(<<KV("status_code", Num(reply.status_code))>>)

\* resp of call_mcp_tool: reply.json(), or the fallback when it raises
ResponseBody(reply) ==
    LET parsed == json_loads(reply.text)
    IN  IF parsed # JSONDecodeError THEN parsed
        ELSE Obj(<<KV("raw_text", Text(reply.text)),
                   KV("status_code", Num(reply.status_code))>>)

\* faulty variant of IsSuccess: any result key counts, truthy or not
IsSuccessAnyResult(reply, resp) == ok(reply.status_code) /\ IsDict(resp) /\ Has(resp, "result")

\* the success test of call_mcp_tool
IsSuccess(reply, resp) == ok(reply.status_code) /\ IsDict(resp) /\ Truthy(Get(resp, "result"))

\* the history entry of a call sent at clock reading t and answered with reply
Entry(tool_name, args, reply, t) ==
    [ time |-> t + 1, tool |-> tool_name, request |-> Payload(tool_name, args, t),
      response |-> ResponseBody(reply), status_code |-> reply.status_code ]

\* the indicator call_mcp_tool renders for an entry
Indicator(reply, entry) == IF IsSuccess(reply, entry.response) THEN "success" ELSE "error"

\* faulty variant of Insert0: list.append(entry)
Insert0AtEnd(list, entry) == Append(list, entry)

\* list.insert(0, entry)
Insert0(list, entry) == <<entry>> \o list

\* call_mcp_tool(tool_name, args), the transport doing net
call_mcp_tool(tool_name, args, net) ==
    /\ posted' = Append(posted, Get(Payload(tool_name, args, now), "id").v)
    /\ r' = net
    /\ IF net.kind = "exception"
       THEN /\ history' = history
            /\ shown' = "error"
       ELSE LET entry == Entry(tool_name, args, net, now)
            IN  /\ history' = Insert0(history, entry)
                /\ shown' = Indicator(net, entry)

\* a handler branch that only renders st.warning / st.error
Render(level) ==
    /\ shown' = level
    /\ r' = NoResponse
    /\ UNCHANGED <<history, posted>>

\* one script run, triggered by a click on button
Run(button) ==
    /\ now < T0 + 2 * MaxRuns
    /\ now' = now + 2
    /\ clicked' = button

(***************************************************************************)
(* Preset buttons.                                                         *)
(***************************************************************************)
TextInputs == {"", "x"}

ShowSystemPrompt ==
    /\ Run("getSystemPrompt")
    /\ \E net \in PresetNets : call_mcp_tool("getSystemPrompt", Obj(<<>>), net)
    /\ UNCHANGED <<tools, editor>>

GetKV ==
    /\ Run("getKVFlag")
    /\ \E kv_key_get \in TextInputs :
         IF kv_key_get # ""
         THEN \E net \in PresetNets :
                call_mcp_tool("getKVFlag", Obj(<<KV("key", Str(kv_key_get))>>), net)
         ELSE Render("warning")
    /\ UNCHANGED <<tools, editor>>

SetKV ==
    /\ Run("setKVFlag")
    /\ \E kv_key_set \in TextInputs, kv_value_set \in TextInputs :
         IF kv_key_set # "" /\ kv_value_set # ""
         THEN \E net \in PresetNets :
                call_mcp_tool("setKVFlag",
                    Obj(<<KV("key", Str(kv_key_set)), KV("value", Str(kv_value_set))>>), net)
         ELSE Render("warning")
    /\ UNCHANGED <<tools, editor>>

\* model_to_use is "" when neither a preset nor a custom model is chosen
AiChat ==
    /\ Run("aiChat")
    /\ \E ai_prompt \in TextInputs, model_to_use \in TextInputs :
         IF ai_prompt # ""
         THEN \E net \in PresetNets :
                call_mcp_tool("aiChat",
                    Obj(<<KV("prompt", Str(ai_prompt))>>
                        \o IF model_to_use # "" THEN <<KV("model", Str(model_to_use))>>
                           ELSE <<>>), net)
         ELSE Render("warning")
    /\ UNCHANGED <<tools, editor>>

CreateWorker ==
    /\ Run("createWorkerFromCode")
    /\ \E worker_name \in TextInputs, worker_code \in TextInputs,
          dry_run \in BOOLEAN, confirm_deploy \in BOOLEAN :
         IF worker_name # "" /\ worker_code # ""
         THEN IF ~dry_run /\ ~confirm_deploy
              THEN Render("error")
              ELSE \E net \in PresetNets :
                     call_mcp_tool("createWorkerFromCode",
                         Obj(<<KV("script_name", Str(worker_name)),
                               KV("script_code", Str(worker_code)),
                               KV("dryRun", Bool(dry_run)),
                               KV("confirm", Bool(confirm_deploy))>>), net)
         ELSE Render("warning")
    /\ UNCHANGED <<tools, editor>>

ListCronTriggers ==
    /\ Run("listCronTriggers")
    /\ \E net \in PresetNets : call_mcp_tool("listCronTriggers", Obj(<<>>), net)
    /\ UNCHANGED <<tools, editor>>

(***************************************************************************)
(* The tools/list button.                                                  *)
(***************************************************************************)
\* resp.get("result", {}).get("tools", [])
ToolsFromResponse(resp) == GetOr(GetOr(resp, "result", Obj(<<>>)), "tools", Arr(<<>>))

\* the try block raises before the assignment to st.session_state.tools
ListRaises(reply, resp) ==
    IF reply.kind = "exception" THEN TRUE
    ELSE IF ~ok(reply.status_code) THEN TRUE
    ELSE IF resp = JSONDecodeError THEN TRUE
    ELSE IF ~IsDict(resp) THEN TRUE
    ELSE ~IsDict(GetOr(resp, "result", Obj(<<>>)))

\* faulty variant of NewCatalog: the fetched tools are merged into the cache
NewCatalogMerged(old, fetched) ==
    IF old.k = "arr" /\ fetched.k = "arr" THEN Arr(old.v \o fetched.v) ELSE fetched

\* st.session_state.tools = tools
NewCatalog(old, fetched) == fetched

\* len(tools) and the loop calling t.get(...) go through
ListingRenders(catalog) ==
    \/ catalog.k = "arr" /\ \A i \in 1..Len(catalog.v) : IsDict(catalog.v[i])
    \/ catalog.k \in {"str", "obj"} /\ ~Truthy(catalog)

ToolsList ==
    /\ Run("tools/list")
    /\ \E net \in ListNets :
         LET resp == json_loads(net.text)
         IN  /\ posted' = Append(posted, Get(ListPayload, "id").v)
             /\ r' = net
             /\ IF ListRaises(net, resp)
                THEN /\ tools' = tools
                     /\ shown' = "error"
                ELSE /\ tools' = NewCatalog(tools, ToolsFromResponse(resp))
                     /\ shown' = IF ListingRenders(tools') THEN "success" ELSE "error"
    /\ UNCHANGED <<history, editor>>

(***************************************************************************)
(* The ad-hoc tools/call button.                                           *)
(***************************************************************************)
\* the section is rendered: the catalog is truthy and every t["name"] exists
CallSectionShown ==
    /\ Truthy(tools)
    /\ tools.k = "arr"
    /\ \A i \in 1..Len(tools.v) : IsDict(tools.v[i]) /\ Has(tools.v[i], "name")

tool_names == [i \in 1..Len(tools.v) |-> Get(tools.v[i], "name")]

\* next((t for t in tools if t["name"] == selected), None)
ToolNamed(name) ==
    LET hits == {i \in 1..Len(tools.v) : PyEq(Get(tools.v[i], "name"), name)}
    IN  IF hits = {} THEN None
        ELSE tools.v[CHOOSE i \in hits : \A j \in hits : i <= j]

\* faulty variant of ParseArgs: a text that does not parse is taken as {}
ParseArgsLenient(text) ==
    IF strip(text) # <<>> /\ json_loads(text) # JSONDecodeError THEN json_loads(text)
    ELSE Obj(<<>>)

\* json.loads(args_text) if args_text.strip() else {}
ParseArgs(text) == IF strip(text) # <<>> THEN json_loads(text) ELSE Obj(<<>>)

ToolsCall ==
    /\ CallSectionShown
    /\ Run("tools/call")
    /\ \E n \in 1..Len(tool_names) :
         LET tool == ToolNamed(tool_names[n])
         IN  /\ Truthy(tool)
             /\ selected' = tool_names[n].v
             /\ default_args' = DefaultArgs(tool)
             /\ \E text \in ArgTexts \cup {json_dumps_indent(DefaultArgs(tool))} :
                  LET parsed_args == ParseArgs(text)
                  IN  /\ args_text' = text
                      /\ IF parsed_args = JSONDecodeError
                         THEN Render("error")
                         ELSE \E net \in CallNets :
                                call_mcp_tool(selected', parsed_args, net)
    /\ UNCHANGED tools

(***************************************************************************)
(* Specifications.                                                         *)
(***************************************************************************)
Init ==
    /\ history = <<>>
    /\ tools = Arr(<<>>)
    /\ now = T0
    /\ posted = <<>>
    /\ clicked = ""
    /\ r = NoResponse
    /\ shown = ""
    /\ selected = ""
    /\ default_args = Obj(<<>>)
    /\ args_text = <<>>

Next ==
    \/ ShowSystemPrompt
    \/ GetKV
    \/ SetKV
    \/ AiChat
    \/ CreateWorker
    \/ ListCronTriggers
    \/ ToolsList
    \/ ToolsCall

Spec == Init /\ [][Next]_vars

(***************************************************************************)
(* A session that is already HistPrefill recorded calls old: the state     *)
(* reached from Init by that many clicks on the system-prompt preset, each *)
(* answered 200 with a result, the last one two ticks before T0.           *)
(***************************************************************************)
PrefillReply == Response(200, json_dumps(Obj(<<KV("result", Str("ok"))>>)))

PrefillClock(n) == T0 - 2 * (HistPrefill - n + 1)

RECURSIVE PrefillHistory(_)
PrefillHistory(n) ==
    IF n = 0 THEN <<>>
    ELSE Insert0(PrefillHistory(n - 1),
                 Entry("getSystemPrompt", Obj(<<>>), PrefillReply, PrefillClock(n)))

InitLong ==
    /\ history = PrefillHistory(HistPrefill)
    /\ tools = Arr(<<>>)
    /\ now = T0
    /\ posted = [n \in 1..HistPrefill |-> PrefillClock(n)]
    /\ clicked = "getSystemPrompt"
    /\ r = PrefillReply
    /\ shown = "success"
    /\ selected = ""
    /\ default_args = Obj(<<>>)
    /\ args_text = <<>>

SpecLong == InitLong /\ [][Next]_vars

\* the entries the history column renders: st.session_state.history[:20]
DisplayCap == 20

Displayed == SubSeq(history, 1, IF Len(history) < DisplayCap THEN Len(history) ELSE DisplayCap)

(***************************************************************************)
(* Vocabulary of the claims.                                               *)
(***************************************************************************)
\* the run before this state dispatched a tools/call and got an HTTP response
CallAnswered == clicked \notin {"", "tools/list"} /\ r.kind = "response"

\* the run before this state dispatched a tools/list and got an HTTP response
ListAnswered == clicked = "tools/list" /\ r.kind = "response"

Is2xx(status) == 200 <= status /\ status < 300

\* the body is a JSON object with a truthy result
HasTruthyResult(text) ==
    LET body == json_loads(text)
    IN  body # JSONDecodeError /\ IsDict(body) /\ Truthy(Get(body, "result"))

\* the classification the specification gives an outcome
Classification(reply) ==
    IF reply.kind = "exception" THEN "TransportFailure"
    ELSE IF Is2xx(reply.status_code) /\ HasTruthyResult(reply.text) THEN "Success"
    ELSE "ProtocolError"

\* the argument text is neither blank nor JSON
Malformed(text) == strip(text) # <<>> /\ json_loads(text) = JSONDecodeError

\* the tool list a tools/list response body carries (none: the empty list)
ListedTools(resp) ==
    IF IsDict(resp) /\ IsDict(Get(resp, "result"))
    THEN GetOr(Get(resp, "result"), "tools", Arr(<<>>))
    ELSE Arr(<<>>)

(***************************************************************************)
(* C1: the history holds exactly one entry per call dispatched to the      *)
(* transport, tools/call and tools/list alike, failed or not.              *)
(* Refuted: tools/list records nothing, and a call whose transport raises  *)
(* is not recorded either.                                                 *)
(***************************************************************************)
C1_OneEntryPerDispatch == Len(history) = Len(posted)

(***************************************************************************)
(* C2: a tools/list that ends in ProtocolError or TransportFailure leaves  *)
(* the cached catalog exactly as it was.                                   *)
(* Refuted: a 200 answer without result (a JSON-RPC error) empties it.     *)
(***************************************************************************)
C2_FailedRefreshKeepsCatalog ==
    [][ (clicked' = "tools/list" /\ Classification(r') # "Success") => tools' = tools ]_vars

(***************************************************************************)
(* C3: a tools/call click whose argument text is not parseable JSON sends  *)
(* nothing and leaves history and catalog unchanged; a blank text is sent  *)
(* as {} and a parseable text as its value.                                *)
(***************************************************************************)
C3_MalformedArgsNotSent ==
    [][ clicked' = "tools/call" =>
          IF Malformed(args_text')
          THEN history' = history /\ posted' = posted /\ tools' = tools
          ELSE /\ posted' = Append(posted, now)
               /\ tools' = tools
               /\ r'.kind = "response" =>
                    /\ Len(history') = Len(history) + 1
                    /\ Get(Get(history'[1].request, "params"), "arguments")
                         = IF strip(args_text') = <<>> THEN Obj(<<>>)
                           ELSE json_loads(args_text') ]_vars

C3_Witness ==
    /\ clicked = "tools/call"
    /\ Malformed(args_text)
    /\ r = NoResponse
    /\ shown = "error"
    /\ Truthy(tools)
    /\ Len(posted) = 1

(***************************************************************************)
(* C4: a tools/call answered with a status >= 300 is shown as an error,    *)
(* whatever the body.                                                      *)
(* Refuted: the test is Response.ok, true for every status below 400.      *)
(***************************************************************************)
C4_Status300IsError == (CallAnswered /\ r.status_code >= 300) => shown = "error"

(***************************************************************************)
(* C5: a tools/call answered with a 2xx status is shown as success exactly *)
(* when the body is a JSON object with a truthy result, and then the       *)
(* recorded response is that object.                                       *)
(***************************************************************************)
C5_SuccessIffTruthyResult ==
    (CallAnswered /\ Is2xx(r.status_code)) =>
        /\ shown \in {"success", "error"}
        /\ shown = "success" <=> HasTruthyResult(r.text)
        /\ shown = "success" => history[1].response = json_loads(r.text)

C5_Witness ==
    /\ CallAnswered
    /\ Is2xx(r.status_code)
    /\ shown = "success"
    /\ IsDict(history[1].response)
    /\ Truthy(Get(history[1].response, "result"))

(***************************************************************************)
(* C6: after a tools/list classified Success the cached catalog is exactly *)
(* the tool list of that response.                                         *)
(* Refuted as stated: a truthy result that is no JSON object (it lists no  *)
(* tool) makes the handler raise before the assignment, and the earlier    *)
(* catalog stays.                                                          *)
(***************************************************************************)
C6_SuccessReplacesCatalog ==
    (ListAnswered /\ Classification(r) = "Success") => tools = ListedTools(json_loads(r.text))

(***************************************************************************)
(* C6, amended: after a tools/list answered 2xx with a JSON object whose   *)
(* result is a non-empty JSON object, the cached catalog is exactly that   *)
(* result's tools (the empty list when it has none), whatever was cached.  *)
(***************************************************************************)
C6_ObjectResultReplacesCatalog ==
    ( /\ ListAnswered
      /\ Classification(r) = "Success"
      /\ IsDict(Get(json_loads(r.text), "result")) )
    => tools = GetOr(Get(json_loads(r.text), "result"), "tools", Arr(<<>>))

\* a second fetch that answered with the shorter list
C6_Witness ==
    /\ ListAnswered
    /\ Classification(r) = "Success"
    /\ Len(posted) = 2
    /\ posted[1] = 1
    /\ tools = Arr(<<EchoTool>>)

(***************************************************************************)
(* C7: a tools/call answered 200 with a body that is no JSON is recorded   *)
(* and shown as an error; the recorded response is the fallback object     *)
(* holding the raw text and the status code.                               *)
(***************************************************************************)
C7_UnparseableBodyFallback ==
    (CallAnswered /\ r.status_code = 200 /\ json_loads(r.text) = JSONDecodeError) =>
        /\ shown = "error"
        /\ Len(history) >= 1
        /\ history[1].status_code = 200
        /\ history[1].request = Payload(history[1].tool,
               Get(Get(history[1].request, "params"), "arguments"), posted[Len(posted)])
        /\ history[1].response =
               Obj(<<KV("raw_text", Text(r.text)), KV("status_code", Num(200))>>)

C7_Witness ==
    /\ CallAnswered
    /\ r = Response(200, Garbage)
    /\ shown = "error"
    /\ PyEq(Get(history[1].response, "raw_text"), Text(Garbage))

(***************************************************************************)
(* C8: the history is newest first.  A step either leaves it alone or puts *)
(* one entry, stamped later than all others, in front of the unchanged     *)
(* rest; so the record times decrease along it, and the displayed window   *)
(* is its first min(20, length) entries: once 20 are shown, a new entry    *)
(* enters the window at the top and the oldest shown one leaves it.        *)
(***************************************************************************)
C8_NewestFirst ==
    /\ [](\A i, j \in 1..Len(history) : i < j => history[i].time > history[j].time)
    /\ [][ \/ history' = history
           \/ /\ Len(history') = Len(history) + 1
              /\ \A i \in 1..Len(history) : history'[i + 1] = history[i]
              /\ history'[1].time = now + 1
              /\ Len(Displayed') = (IF Len(history') < DisplayCap
                                    THEN Len(history') ELSE DisplayCap)
              /\ \A i \in 1..Len(Displayed') : Displayed'[i] = history'[i]
              /\ Len(history) >= DisplayCap =>
                   Displayed' = <<history'[1]>> \o SubSeq(Displayed, 1, DisplayCap - 1) ]_vars

\* more entries recorded than the window shows
C8_Witness ==
    /\ Len(history) = DisplayCap + 1
    /\ Len(Displayed) = DisplayCap
    /\ history[1].tool # history[2].tool
    /\ Displayed[DisplayCap] = history[DisplayCap]

(***************************************************************************)
(* C9: any two requests dispatched in one session carry different ids.     *)
(* Refuted: every tools/list request carries the id 1.                     *)
(***************************************************************************)
C9_FreshIds == \A i, j \in 1..Len(posted) : i # j => posted[i] # posted[j]

(***************************************************************************)
(* C10: the synthesized default arguments hold one key per declared        *)
(* property, in declaration order, with "" for string, 0 for number,       *)
(* false for boolean, [] for array and null for any other or missing type. *)
(***************************************************************************)
ExpectedDefault(type) ==
    CASE PyEq(type, Str("string")) -> Str("")
      [] PyEq(type, Str("number")) -> Num(0)
      [] PyEq(type, Str("boolean")) -> Bool(FALSE)
      [] PyEq(type, Str("array")) -> Arr(<<>>)
      [] OTHER -> None

C10_DefaultsFollowSchema ==
    clicked = "tools/call" =>
        LET declared == PropsOf(ToolNamed(Str(selected))).v
        IN  /\ IsDict(default_args)
            /\ Len(default_args.v) = Len(declared)
            /\ \A i \in 1..Len(declared) :
                 /\ default_args.v[i].key = declared[i].key
                 /\ default_args.v[i].val = ExpectedDefault(Get(declared[i].val, "type"))
            /\ selected = "sample" =>
                 SubSeq(default_args.v, 1, 5) =
                     <<KV("a", Str("")), KV("b", Num(0)), KV("c", Bool(FALSE)),
                       KV("d", Arr(<<>>)), KV("e", None)>>

C10_Witness ==
    /\ clicked = "tools/call"
    /\ selected = "sample"
    /\ default_args =
         Obj(<<KV("a", Str("")), KV("b", Num(0)), KV("c", Bool(FALSE)), KV("d", Arr(<<>>)),
               KV("e", None), KV("f", None), KV("g", None), KV("h", None)>>)

====
